---- MODULE Spec2Model ----
(***************************************************************************)
(* typed-sse: the receiver (useEventSource: connection state machine,      *)
(* listener registry, reconnect policy) and the sender (SSEClient,         *)
(* SSEManager) as state machines.                                          *)
(*                                                                         *)
(* JavaScript runs every callback to completion, so one action is one      *)
(* synchronous run of a handler or API call; what an async function does   *)
(* after an await is a later action.                                       *)
(***************************************************************************)
EXTENDS Integers, Sequences, FiniteSets, TLC

\* ------------------------------------------------------------------ bounds
\* slots for underlying EventSource handles that are not yet garbage
MaxHandles == 2
\* unsubscribe closures handed out by subscribe()
MaxSubs == 2
\* server connections constructed
MaxClients == 2
\* asynchronous sender calls whose promise is kept
MaxCalls == 1

\* ------------------------------------------------------- program constants
CONNECTING == 0
OPEN == 1
CLOSED == 2

DefaultInitialDelayMs == 1000
DefaultMaxDelayMs == 15000
DefaultMaxRetries == 10

\* ------------------------------------------------------------------ inputs
Null == "<null>"
ReservedNames == {"open", "error", "message"}
NamedNames == {"notification", "connected"}
Names == ReservedNames \cup NamedNames
Handlers == {"h1", "h2"}
\* ev.data of an incoming frame
Payloads == {"not-json", "{\"a\":1}"}
\* ev.lastEventId of an incoming frame ("" when the frame carries none)
EventIds == {"", "42"}

DefaultOpts ==
    [reconnectEnabled |-> TRUE, initialDelayMs |-> DefaultInitialDelayMs,
     maxDelayMs |-> DefaultMaxDelayMs, maxRetries |-> DefaultMaxRetries]

\* a short reconnect policy, whose retries reach the cap and run out quickly
ShortOpts ==
    [reconnectEnabled |-> TRUE, initialDelayMs |-> 1, maxDelayMs |-> 3,
     maxRetries |-> 3]

\* reconnect options of the receiver: reconnect switched off, the short policy
OptsChoices == { [DefaultOpts EXCEPT !.reconnectEnabled = FALSE], ShortOpts }

\* entries in a query object
MaxQuery == 2

\* urls of the endpoint. A string is the sequence of its characters.
UrlBases == { <<"/", "e">>, <<"/", "a", "p", "i", "/", "s", "s", "e">> }

\* userId option of a server connection
NoUser == Null
Users == {"u1", "u2"}

VARIABLES
    \* ---- receiver (useEventSource)
    opts,            \* reconnect options of this hook instance
    urlInput,        \* the url argument of the hook: a string or {url, query}
    urlString,       \* useMemo(() => buildUrl(url), [url])
    eventSourceRef,  \* 0 (null) or the slot of the current handle
    handles,         \* slot -> [readyState, listeners, extra, opened, url]:
                     \* listeners are the names with a dispatcher on the handle,
                     \* extra those of them with a second one
    retryRef,
    timerRef,        \* 0 (null) or the delay of the timer it holds
    timerLive,       \* the timeout timerRef holds has neither fired nor been cleared
    destroyedRef,
    listenersRef,    \* name -> handlers in insertion order (keys = names present)
    dispatchersRef,  \* names with a dispatcher closure
    state,           \* the published snapshot
    \* ---- history
    closures,        \* <<name, handler, ran>> of every unsubscribe closure the
                     \* application holds: the name and handler it was made for,
                     \* whether it was called already
    last,            \* the operation that ran last
    torn,            \* disconnect() ran and connect() was not called since
    nSched,          \* retries scheduled since the last open
    emitted,         \* the emit() of the last step: who ran, who threw
    replaced,        \* readyState of the handle the last step's connect() tore
                     \* down, -1 when it tore none down
    \* ---- sender (SSEClient, SSEManager)
    clients,         \* id -> the SSEClient constructed with that id
    clientsById,     \* ids registered (the map is id -> the client of that id)
    clientIdsByUser, \* userId -> set of ids (keys = users present)
    calls,           \* slot -> an asynchronous call whose promise is pending
    done,            \* the call whose promise settled in the last step, if one did
    \* ---- history
    removedIds,      \* ids removeClient took out of the registry
    goneIds,         \* ids removeClient was called for and addClient not since
    \* ---- the SSEManager of client.ts
    sessionClientsById  \* client.sessionId -> the id of the client stored there

rvars == <<opts, urlInput, urlString, eventSourceRef, handles, retryRef, timerRef, timerLive,
           destroyedRef, listenersRef, dispatchersRef, state,
           closures, last, torn, nSched, emitted, replaced>>

svars == <<clients, clientsById, clientIdsByUser, calls, done, removedIds,
           goneIds, sessionClientsById>>

\* what the SSEManager of part_001 and its clients never touch
ovars == <<rvars, sessionClientsById>>

\* what the SSEManager of client.ts never touches
pvars == <<rvars, clientsById, clientIdsByUser, removedIds, goneIds>>

vars == <<rvars, svars>>

HandleIds == 1..MaxHandles

Min(a, b) == IF a <= b THEN a ELSE b

\* new EventSource(url, ...): the handle starts CONNECTING to url
FreshHandle(url) ==
    [readyState |-> CONNECTING, listeners |-> {}, extra |-> {}, opened |-> FALSE,
     url |-> url]
\* a slot that holds no handle, or a closed one nothing refers to
DeadHandle ==
    [readyState |-> CLOSED, listeners |-> {}, extra |-> {}, opened |-> FALSE,
     url |-> <<>>]

\* -------------------------------------------------------------- utils.ts
\* isReservedEvent that knows the connection events only
isReservedEventNoMessage(eventName) ==
    eventName = "open" \/ eventName = "error"

isReservedEvent(eventName) ==
    eventName = "open" \/ eventName = "error" \/ eventName = "message"

\* JSON.parse succeeds on these payloads
IsJson(raw) == raw = "{\"a\":1}"
JsonValue(raw) == [t |-> "object", v |-> "a=1"]

\* safeParseJson without the catch: the SyntaxError of JSON.parse comes out
safeParseJsonNoCatch(raw) ==
    IF IsJson(raw) THEN JsonValue(raw) ELSE [t |-> "thrown", v |-> raw]

safeParseJson(raw) ==
    IF IsJson(raw) THEN JsonValue(raw) ELSE [t |-> "string", v |-> raw]

\* a JavaScript string is the sequence of its characters
\* the values of a query entry: null, undefined (absent) or a string
NullValue == [t |-> "null", s |-> <<>>]
AbsentValue == [t |-> "undefined", s |-> <<>>]
StringValue(s) == [t |-> "string", s |-> s]

\* encodeURIComponent on one character: letters, digits and - _ . ! ~ * ' ( )
\* stay, every other character becomes %XX
PercentCode(ch) ==
    CASE ch = " " -> <<"%", "2", "0">>
      [] ch = "&" -> <<"%", "2", "6">>
      [] ch = "/" -> <<"%", "2", "F">>
      [] ch = "=" -> <<"%", "3", "D">>
      [] ch = "?" -> <<"%", "3", "F">>
      [] ch = "%" -> <<"%", "2", "5">>
      [] OTHER -> <<ch>>

RECURSIVE encodeURIComponent(_)
encodeURIComponent(s) ==
    IF s = <<>> THEN <<>>
    ELSE PercentCode(Head(s)) \o encodeURIComponent(Tail(s))

\* String(v) of a query value
String(v) ==
    CASE v.t = "string" -> v.s
      [] v.t = "null" -> <<"n", "u", "l", "l">>
      [] OTHER -> <<"u", "n", "d", "e", "f", "i", "n", "e", "d">>

\* Array.prototype.join(sep) over an array of strings
RECURSIVE join(_, _)
join(parts, sep) ==
    IF parts = <<>> THEN <<>>
    ELSE IF Len(parts) = 1 THEN parts[1]
    ELSE parts[1] \o sep \o join(Tail(parts), sep)

\* Object.entries(urlInput.query ?? {}): the entries in property order
ObjectEntries(urlInput_) ==
    IF urlInput_.hasQuery THEN urlInput_.query ELSE <<>>

\* the `${encodeURIComponent(k)}=${encodeURIComponent(String(v))}` of the map
QueryPair(e) == encodeURIComponent(e.k) \o <<"=">> \o encodeURIComponent(String(e.v))

\* buildUrl whose filter is missing: null and undefined go through String
buildUrlNoFilter(urlInput_) ==
    IF urlInput_.t = "string" THEN urlInput_.url
    ELSE LET entries == ObjectEntries(urlInput_)
             query == join([i \in 1..Len(entries) |-> QueryPair(entries[i])], <<"&">>)
         IN  urlInput_.url \o (IF query # <<>> THEN <<"?">> \o query ELSE <<>>)

\* buildUrl(urlInput)
buildUrl(urlInput_) ==
    IF urlInput_.t = "string" THEN urlInput_.url
    ELSE LET entries == SelectSeq(ObjectEntries(urlInput_),
                                  LAMBDA e : e.v.t \notin {"null", "undefined"})
             query == join([i \in 1..Len(entries) |-> QueryPair(entries[i])], <<"&">>)
         IN  urlInput_.url \o (IF query # <<>> THEN <<"?">> \o query ELSE <<>>)

\* query objects: up to MaxQuery properties with distinct keys (user_id,
\* channel, a&b), each null, undefined or a string ("u1", "a b", "")
Queries ==
    LET keys == { <<"u", "s", "e", "r", "_", "i", "d">>,
                  <<"c", "h", "a", "n", "n", "e", "l">>, <<"a", "&", "b">> }
        values == {NullValue, AbsentValue}
                    \cup {StringValue(s) : s \in { <<"u", "1">>, <<"a", " ", "b">>, <<>> }}
    IN  {q \in UNION {[1..n -> [k : keys, v : values]] : n \in 0..MaxQuery} :
            \A i, j \in 1..Len(q) : i # j => q[i].k # q[j].k}

\* url arguments of the hook: a literal url (one of them with characters
\* buildUrl would escape), {url}, {url, query}
UrlInputs ==
    {[t |-> "string", url |-> u, hasQuery |-> FALSE, query |-> <<>>] :
        u \in UrlBases \cup { <<"/", "e", "?", "q", "=", "a", " ", "b">> }}
    \cup {[t |-> "options", url |-> u, hasQuery |-> FALSE, query |-> <<>>] : u \in UrlBases}
    \cup {[t |-> "options", url |-> u, hasQuery |-> TRUE, query |-> q] :
              u \in UrlBases, q \in Queries}

\* the url the receiver is given where the url is not what is looked at
PlainUrl ==
    [t |-> "string", url |-> <<"/", "e">>, hasQuery |-> FALSE, query |-> <<>>]

\* --------------------------------------------------------- useEventSource
\* the url argument of the hook
InitHookUrl(inputs) ==
    /\ urlInput \in inputs
    /\ urlString = buildUrl(urlInput)

InitReceiver(choices) ==
    /\ opts \in choices
    /\ eventSourceRef = 0
    /\ handles = [h \in HandleIds |-> DeadHandle]
    /\ retryRef = 0
    /\ timerRef = 0
    /\ timerLive = FALSE
    /\ destroyedRef = FALSE
    /\ listenersRef = <<>>
    /\ dispatchersRef = {}
    /\ state = [connected |-> FALSE, readyState |-> 0, lastEventId |-> Null,
                lastEventName |-> Null, lastData |-> [t |-> "null", v |-> Null],
                error |-> FALSE]
    /\ closures = {}
    /\ last = "init"
    /\ torn = [on |-> FALSE, hadTimer |-> FALSE, hadDispatcher |-> FALSE]
    /\ nSched = 0
    /\ emitted = [name |-> Null, invoked |-> <<>>, threw |-> {}, escaped |-> FALSE,
                  raw |-> Null, data |-> [t |-> "null", v |-> Null]]
    /\ replaced = -1

HasListeners(name) == name \in DOMAIN listenersRef

InSeq(s, x) == \E i \in 1..Len(s) : s[i] = x

RemoveFromSeq(s, x) == SelectSeq(s, LAMBDA y : y # x)

\* Set.add: a handler already in the set keeps its place
SetAdd(s, x) == IF InSeq(s, x) THEN s ELSE Append(s, x)

\* Map.set / Map.delete on listenersRef
MapSet(m, k, v) == [n \in (DOMAIN m) \cup {k} |-> IF n = k THEN v ELSE m[n]]
MapDelete(m, k) == [n \in (DOMAIN m) \ {k} |-> m[n]]

\* no emit() ran in the step
NoEmit ==
    [name |-> Null, invoked |-> <<>>, threw |-> {}, escaped |-> FALSE,
     raw |-> Null, data |-> [t |-> "null", v |-> Null]]

\* the handlers of set up to and including the first one in throwers
UpToFirstThrow(set, throwers) ==
    LET idx == {i \in 1..Len(set) : set[i] \in throwers}
    IN  IF idx = {} THEN set
        ELSE SubSeq(set, 1, CHOOSE i \in idx : \A j \in idx : i <= j)

\* emit(name, ...args) without the try/catch around the handler call: the
\* first handler that throws ends the loop and the exception leaves emit
emitNoCatch(name, throwers) ==
    LET set == IF HasListeners(name) THEN listenersRef[name] ELSE <<>>
        ran == UpToFirstThrow(set, throwers)
    IN  [name |-> name, invoked |-> ran,
         threw |-> {ran[i] : i \in 1..Len(ran)} \cap throwers,
         escaped |-> \E i \in 1..Len(set) : set[i] \in throwers,
         raw |-> Null, data |-> [t |-> "null", v |-> Null]]

\* emit(name, ...args): the handlers of name that are called, in the order of
\* the set, those of them that threw (throwers are the handlers that throw on
\* this event), and whether an exception left emit
emit(name, throwers) ==
    LET set == IF HasListeners(name) THEN listenersRef[name] ELSE <<>>
    IN  [name |-> name, invoked |-> set,
         threw |-> {set[i] : i \in 1..Len(set)} \cap throwers,
         escaped |-> FALSE,
         raw |-> Null, data |-> [t |-> "null", v |-> Null]]

\* emit(name, data, ev): the handlers get the parsed data of the frame;
\* emit("error", e): they get the Event the handle fired
emitData(name, throwers, raw, data) ==
    [emit(name, throwers) EXCEPT !.raw = raw, !.data = data]

\* attachNamedIfNeeded(name) without the look into dispatchersRef
attachNamedAgain(name, es, disp) ==
    IF isReservedEvent(name) THEN {}
    ELSE IF es = 0 THEN {}
    ELSE {name}

\* attachNamedIfNeeded(name) that returns when any dispatcher exists
attachNamedIfFirst(name, es, disp) ==
    IF isReservedEvent(name) THEN {}
    ELSE IF es = 0 \/ disp # {} THEN {}
    ELSE {name}

\* attachNamedIfNeeded(name), as the names it adds to the current handle and
\* to dispatchersRef, given the current handle es and the dispatcher names disp
attachNamedIfNeeded(name, es, disp) ==
    IF isReservedEvent(name) THEN {}
    ELSE IF es = 0 \/ name \in disp THEN {}
    ELSE {name}

\* attachAllNamed() that attaches nothing when the handle opens
attachAllNamedSkipped(keys, es, disp) == {}

\* attachAllNamed(): every key of the listener map goes through
\* attachNamedIfNeeded
attachAllNamed(keys, es, disp) ==
    UNION { attachNamedIfNeeded(n, es, disp) : n \in {k \in keys : ~isReservedEvent(k)} }

AddListenersTo(hs, es, names) ==
    IF es = 0 THEN hs
    ELSE [hs EXCEPT ![es].listeners = @ \cup names,
                    ![es].extra = @ \cup (names \cap hs[es].listeners)]

\* es.removeEventListener(name, dispatch) for the names given, on the handle
\* record es: it takes off the one dispatcher dispatchersRef holds per name
Detach(es, names) ==
    [es EXCEPT !.listeners = @ \ (names \ es.extra), !.extra = @ \ names]

\* cleanup() that forgets the handle without closing it
cleanupLeavesHandle(live) ==
    [timerRef |-> 0,
     timerLive |-> IF timerRef # 0 THEN FALSE ELSE live,
     handles |-> handles,
     dispatchersRef |-> {},
     eventSourceRef |-> 0]

\* cleanup() that leaves the retry timer running
cleanupKeepsTimer(live) ==
    [timerRef |-> timerRef,
     timerLive |-> live,
     handles |->
        IF eventSourceRef = 0 THEN handles
        ELSE [handles EXCEPT ![eventSourceRef] =
                [Detach(@, dispatchersRef) EXCEPT
                    !.readyState = CLOSED, !.opened = FALSE, !.url = <<>>]],
     dispatchersRef |-> {},
     eventSourceRef |-> 0]

\* cleanup() without dispatchersRef.current.clear()
cleanupKeepsDispatchers(live) ==
    [timerRef |-> 0,
     timerLive |-> IF timerRef # 0 THEN FALSE ELSE live,
     handles |->
        IF eventSourceRef = 0 THEN handles
        ELSE [handles EXCEPT ![eventSourceRef] =
                [Detach(@, dispatchersRef) EXCEPT
                    !.readyState = CLOSED, !.opened = FALSE, !.url = <<>>]],
     dispatchersRef |-> dispatchersRef,
     eventSourceRef |-> 0]

\* cleanup(): the refs after it. live is whether the timeout timerRef holds is
\* still pending when cleanup runs.
cleanup(live) ==
    [timerRef |-> 0,
     timerLive |-> IF timerRef # 0 THEN FALSE ELSE live,
     handles |->
        IF eventSourceRef = 0 THEN handles
        ELSE [handles EXCEPT ![eventSourceRef] =
                [Detach(@, dispatchersRef) EXCEPT
                    !.readyState = CLOSED, !.opened = FALSE, !.url = <<>>]],
     dispatchersRef |-> {},
     eventSourceRef |-> 0]

\* new EventSource(urlString): the lowest slot whose handle is closed and
\* released. Closed handles fire no events, so their slots are reused.
NewEventSource(hs) ==
    LET free == {h \in HandleIds : hs[h].readyState = CLOSED}
    IN  IF free = {} THEN 0 ELSE CHOOSE x \in free : \A y \in free : x <= y

\* connect() that tears down and reopens whatever the handle reports
connectAlways(live) ==
    LET c == cleanup(live)
        h == NewEventSource(c.handles)
    IN  /\ h # 0
        /\ destroyedRef' = FALSE
        /\ timerRef' = c.timerRef
        /\ timerLive' = c.timerLive
        /\ dispatchersRef' = c.dispatchersRef
        /\ handles' = [c.handles EXCEPT ![h] = FreshHandle(urlString)]
        /\ eventSourceRef' = h

\* connect() that returns early whenever it holds a handle, open or not
connectIfNone(live) ==
    IF eventSourceRef # 0
    THEN /\ timerLive' = live
         /\ UNCHANGED <<destroyedRef, timerRef, handles, dispatchersRef,
                        eventSourceRef>>
    ELSE LET c == cleanup(live)
             h == NewEventSource(c.handles)
         IN  /\ h # 0
             /\ destroyedRef' = FALSE
             /\ timerRef' = c.timerRef
             /\ timerLive' = c.timerLive
             /\ dispatchersRef' = c.dispatchersRef
             /\ handles' = [c.handles EXCEPT ![h] = FreshHandle(urlString)]
             /\ eventSourceRef' = h

\* the readyState of the handle a connect() made now tears down
Replaced ==
    IF eventSourceRef # 0 /\ handles[eventSourceRef].readyState # OPEN
    THEN handles[eventSourceRef].readyState
    ELSE -1

\* connect(); live as for cleanup
connect(live) ==
    IF eventSourceRef # 0 /\ handles[eventSourceRef].readyState = OPEN
    THEN /\ timerLive' = live
         /\ UNCHANGED <<destroyedRef, timerRef, handles, dispatchersRef,
                        eventSourceRef>>
    ELSE LET c == cleanup(live)
             h == NewEventSource(c.handles)
         IN  /\ h # 0
             /\ destroyedRef' = FALSE
             /\ timerRef' = c.timerRef
             /\ timerLive' = c.timerLive
             /\ dispatchersRef' = c.dispatchersRef
             /\ handles' = [c.handles EXCEPT ![h] = FreshHandle(urlString)]
             /\ eventSourceRef' = h

\* scheduleReconnect() that stops one retry late (> for >=)
scheduleReconnectOneMore ==
    IF ~opts.reconnectEnabled \/ destroyedRef
    THEN [retryRef |-> retryRef, timerRef |-> timerRef, timerLive |-> timerLive,
          scheduled |-> FALSE]
    ELSE IF retryRef > opts.maxRetries
    THEN [retryRef |-> retryRef, timerRef |-> timerRef, timerLive |-> timerLive,
          scheduled |-> FALSE]
    ELSE [retryRef |-> retryRef + 1,
          timerRef |-> Min(opts.initialDelayMs * (2 ^ retryRef), opts.maxDelayMs),
          timerLive |-> TRUE,
          scheduled |-> TRUE]

\* scheduleReconnect() that computes the delay after the increment
scheduleReconnectLateDelay ==
    IF ~opts.reconnectEnabled \/ destroyedRef
    THEN [retryRef |-> retryRef, timerRef |-> timerRef, timerLive |-> timerLive,
          scheduled |-> FALSE]
    ELSE IF retryRef >= opts.maxRetries
    THEN [retryRef |-> retryRef, timerRef |-> timerRef, timerLive |-> timerLive,
          scheduled |-> FALSE]
    ELSE [retryRef |-> retryRef + 1,
          timerRef |-> Min(opts.initialDelayMs * (2 ^ (retryRef + 1)), opts.maxDelayMs),
          timerLive |-> TRUE,
          scheduled |-> TRUE]

\* scheduleReconnect(): the retry state after it, and whether it scheduled
scheduleReconnect ==
    IF ~opts.reconnectEnabled \/ destroyedRef
    THEN [retryRef |-> retryRef, timerRef |-> timerRef, timerLive |-> timerLive,
          scheduled |-> FALSE]
    ELSE IF retryRef >= opts.maxRetries
    THEN [retryRef |-> retryRef, timerRef |-> timerRef, timerLive |-> timerLive,
          scheduled |-> FALSE]
    ELSE [retryRef |-> retryRef + 1,
          timerRef |-> Min(opts.initialDelayMs * (2 ^ retryRef), opts.maxDelayMs),
          timerLive |-> TRUE,
          scheduled |-> TRUE]

\* disconnect() that publishes CLOSED and leaves connected as it was
disconnectStateStale(s) == [s EXCEPT !.readyState = 2]

\* the snapshot disconnect() publishes
disconnectState(s) == [s EXCEPT !.connected = FALSE, !.readyState = 2]

\* the snapshot of an onopen that leaves the error of the last failure
openStateKeepsError(s) == [s EXCEPT !.connected = TRUE, !.readyState = 1]

\* the snapshot onopen publishes
openState(s) == [s EXCEPT !.connected = TRUE, !.readyState = 1, !.error = FALSE]

\* the snapshot of an onerror that takes every error for a terminal one
errorStateClosed(s, rs) == [s EXCEPT !.connected = FALSE, !.readyState = 2, !.error = TRUE]

\* the snapshot onerror publishes; rs is eventSource.readyState
errorState(s, rs) == [s EXCEPT !.connected = FALSE, !.readyState = rs, !.error = TRUE]

\* the snapshot a message or named dispatch publishes
messageState(s, name, data, id) ==
    [s EXCEPT !.lastEventId = IF id # "" THEN id ELSE s.lastEventId,
              !.lastEventName = name,
              !.lastData = data]

\* ---- API calls of the hosting component
\* connect() that starts the retries over
ConnectResetsAttempt ==
    /\ connect(timerLive)
    /\ retryRef' = 0
    /\ last' = "connect"
    /\ replaced' = Replaced
    /\ UNCHANGED svars
    /\ torn' = [on |-> FALSE, hadTimer |-> FALSE, hadDispatcher |-> FALSE]
    /\ emitted' = NoEmit
    /\ UNCHANGED <<opts, urlInput, urlString, listenersRef, state, closures, nSched>>

Connect ==
    /\ connect(timerLive)
    /\ last' = "connect"
    /\ replaced' = Replaced
    /\ UNCHANGED svars
    /\ torn' = [on |-> FALSE, hadTimer |-> FALSE, hadDispatcher |-> FALSE]
    /\ emitted' = NoEmit
    /\ UNCHANGED <<opts, urlInput, urlString, retryRef, listenersRef, state, closures, nSched>>

Disconnect ==
    LET c == cleanup(timerLive)
    IN  /\ destroyedRef' = TRUE
        /\ timerRef' = c.timerRef
        /\ timerLive' = c.timerLive
        /\ handles' = c.handles
        /\ dispatchersRef' = c.dispatchersRef
        /\ eventSourceRef' = c.eventSourceRef
        /\ state' = disconnectState(state)
        /\ last' = "disconnect" /\ replaced' = -1
        /\ UNCHANGED svars
        /\ torn' = [on |-> TRUE, hadTimer |-> timerLive,
                     hadDispatcher |->
                        \E h \in HandleIds : handles[h].listeners # {}]
        /\ emitted' = NoEmit
        /\ UNCHANGED <<opts, urlInput, urlString, retryRef, listenersRef, closures, nSched>>

\* the component renders the hook with another url: urlString is recomputed,
\* connect gets a new identity and the effect that depends on it is cleaned
\* up, which calls disconnect() (enabled is left at its default, false, so
\* the effect itself does not connect)
Rerender(input) ==
    LET c == cleanup(timerLive)
    IN  /\ input # urlInput
        /\ urlInput' = input
        /\ urlString' = buildUrl(input)
        /\ destroyedRef' = TRUE
        /\ timerRef' = c.timerRef
        /\ timerLive' = c.timerLive
        /\ handles' = c.handles
        /\ dispatchersRef' = c.dispatchersRef
        /\ eventSourceRef' = c.eventSourceRef
        /\ state' = disconnectState(state)
        /\ last' = "disconnect" /\ replaced' = -1
        /\ UNCHANGED svars
        /\ torn' = [on |-> TRUE, hadTimer |-> timerLive,
                     hadDispatcher |->
                        \E h \in HandleIds : handles[h].listeners # {}]
        /\ emitted' = NoEmit
        /\ UNCHANGED <<opts, retryRef, listenersRef, closures, nSched>>

\* subscribe(name, handler): addListener
Subscribe(name, handler) ==
    LET set == IF HasListeners(name) THEN listenersRef[name] ELSE <<>>
        add == attachNamedIfNeeded(name, eventSourceRef, dispatchersRef)
    IN  /\ Cardinality({<<c[1], c[2]>> : c \in closures} \cup {<<name, handler>>})
              <= MaxSubs
        /\ listenersRef' = MapSet(listenersRef, name, SetAdd(set, handler))
        /\ handles' = AddListenersTo(handles, eventSourceRef, add)
        /\ dispatchersRef' = dispatchersRef \cup add
        /\ closures' = closures \cup {<<name, handler, FALSE>>}
        /\ last' = "subscribe" /\ replaced' = -1
        /\ emitted' = NoEmit
        /\ UNCHANGED svars
        /\ UNCHANGED <<opts, urlInput, urlString, eventSourceRef, retryRef, timerRef, timerLive,
                       destroyedRef, state, torn, nSched>>

\* a closure subscribe(name, handler) returned, called: one that was called
\* before (ran) or one that was not; the application keeps it for a later
\* call (keep) or drops it
Unsubscribe(name, handler, ran, keep) ==
    /\ <<name, handler, ran>> \in closures
    /\ closures' = (closures \ {<<name, handler, ran>>})
                       \cup (IF keep THEN {<<name, handler, TRUE>>} ELSE {})
    /\ last' = "unsubscribe" /\ replaced' = -1
    /\ emitted' = NoEmit
    /\ UNCHANGED svars
    /\ UNCHANGED <<opts, urlInput, urlString, eventSourceRef, retryRef, timerRef, timerLive,
                   destroyedRef, state, torn, nSched>>
    /\ IF ~HasListeners(name)
       THEN UNCHANGED <<listenersRef, handles, dispatchersRef>>
       ELSE LET current == RemoveFromSeq(listenersRef[name], handler)
            IN  IF Len(current) > 0
                THEN /\ listenersRef' = MapSet(listenersRef, name, current)
                     /\ UNCHANGED <<handles, dispatchersRef>>
                ELSE /\ listenersRef' = MapDelete(listenersRef, name)
                     /\ handles' =
                          IF name \in dispatchersRef /\ eventSourceRef # 0
                             /\ ~isReservedEvent(name)
                          THEN [handles EXCEPT ![eventSourceRef] = Detach(@, {name})]
                          ELSE handles
                     /\ dispatchersRef' = dispatchersRef \ {name}

\* ---- callbacks of the underlying handle h and of the retry timer
\* eventSource.onopen: the transport took h from CONNECTING to OPEN
OnOpen(h, throwers) ==
    /\ handles[h].readyState = CONNECTING
    /\ LET e == emit("open", throwers)
           add == IF e.escaped THEN {}
                  ELSE attachAllNamed(DOMAIN listenersRef, eventSourceRef, dispatchersRef)
           hs == [handles EXCEPT ![h].readyState = OPEN, ![h].opened = TRUE]
       IN  /\ retryRef' = 0
           /\ state' = openState(state)
           /\ emitted' = e
           /\ handles' = AddListenersTo(hs, eventSourceRef, add)
           /\ dispatchersRef' = dispatchersRef \cup add
    /\ last' = "open" /\ replaced' = -1
    /\ UNCHANGED svars
    /\ nSched' = 0
    /\ UNCHANGED <<opts, urlInput, urlString, eventSourceRef, timerRef, timerLive, destroyedRef,
                   listenersRef, closures, torn>>

\* eventSource.onerror: the transport lost or failed h and left it in
\* readyState rs (CONNECTING while it reconnects by itself, CLOSED when it
\* gave up) before firing the event
OnError(h, rs, throwers) ==
    /\ handles[h].readyState \in {CONNECTING, OPEN}
    /\ rs \in {CONNECTING, CLOSED}
    /\ handles' = [handles EXCEPT ![h].readyState = rs]
    /\ state' = errorState(state, rs)
    /\ LET e == emitData("error", throwers, Null, [t |-> "event", v |-> "error"])
           r == IF rs = CLOSED /\ ~e.escaped THEN scheduleReconnect
                ELSE [retryRef |-> retryRef, timerRef |-> timerRef,
                      timerLive |-> timerLive, scheduled |-> FALSE]
       IN  /\ emitted' = e
           /\ retryRef' = r.retryRef
           /\ timerRef' = r.timerRef
           /\ timerLive' = r.timerLive
           /\ nSched' = IF r.scheduled THEN nSched + 1 ELSE nSched
    /\ last' = "error" /\ replaced' = -1
    /\ UNCHANGED svars
    /\ UNCHANGED <<opts, urlInput, urlString, eventSourceRef, destroyedRef, listenersRef,
                   dispatchersRef, closures, torn>>

\* eventSource.onerror on the current handle h when caller, a handler
\* subscribed to "error", calls connect() from inside emit("error", e):
\* connect() tears h down and makes the next handle before onerror goes on
\* to its test of eventSource.readyState, which cleanup() has just made
\* CLOSED, and scheduleReconnect() runs with destroyedRef false
OnErrorReconnect(h, rs, caller) ==
    /\ h = eventSourceRef
    /\ handles[h].readyState \in {CONNECTING, OPEN}
    /\ rs \in {CONNECTING, CLOSED}
    /\ HasListeners("error")
    /\ \E i \in 1..Len(listenersRef["error"]) : listenersRef["error"][i] = caller
    /\ state' = errorState(state, rs)
    /\ emitted' = emitData("error", {}, Null, [t |-> "event", v |-> "error"])
    /\ LET c == cleanup(timerLive)
           n == NewEventSource(c.handles)
           retry == opts.reconnectEnabled /\ retryRef < opts.maxRetries
       IN  /\ n # 0
           /\ destroyedRef' = FALSE
           /\ dispatchersRef' = c.dispatchersRef
           /\ handles' = [c.handles EXCEPT ![n] = FreshHandle(urlString)]
           /\ eventSourceRef' = n
           /\ retryRef' = IF retry THEN retryRef + 1 ELSE retryRef
           /\ timerRef' = IF retry
                          THEN Min(opts.initialDelayMs * (2 ^ retryRef), opts.maxDelayMs)
                          ELSE c.timerRef
           /\ timerLive' = IF retry THEN TRUE ELSE c.timerLive
           /\ nSched' = IF retry THEN nSched + 1 ELSE nSched
    /\ last' = "error" /\ replaced' = -1
    /\ torn' = [on |-> FALSE, hadTimer |-> FALSE, hadDispatcher |-> FALSE]
    /\ UNCHANGED svars
    /\ UNCHANGED <<opts, urlInput, urlString, listenersRef, closures>>

\* eventSource.onopen run by a frame of the stream whose event field is "open":
\* the handle fires it as an event of type open while it stays OPEN
OnOpenFrame(h, throwers) ==
    /\ handles[h].readyState = OPEN
    /\ LET e == emit("open", throwers)
           add == IF e.escaped THEN {}
                  ELSE attachAllNamed(DOMAIN listenersRef, eventSourceRef, dispatchersRef)
       IN  /\ retryRef' = 0
           /\ state' = openState(state)
           /\ emitted' = e
           /\ handles' = AddListenersTo(handles, eventSourceRef, add)
           /\ dispatchersRef' = dispatchersRef \cup add
    /\ last' = "open" /\ replaced' = -1
    /\ UNCHANGED svars
    /\ nSched' = 0
    /\ UNCHANGED <<opts, urlInput, urlString, eventSourceRef, timerRef, timerLive, destroyedRef,
                   listenersRef, closures, torn>>

\* eventSource.onerror run by a frame of the stream whose event field is
\* "error": the handle fires it as an event of type error while it stays OPEN,
\* so eventSource.readyState is OPEN and no retry is evaluated
OnErrorFrame(h, throwers) ==
    /\ handles[h].readyState = OPEN
    /\ state' = errorState(state, handles[h].readyState)
    /\ emitted' = emitData("error", throwers, Null, [t |-> "event", v |-> "error"])
    /\ last' = "error" /\ replaced' = -1
    /\ UNCHANGED svars
    /\ UNCHANGED <<opts, urlInput, urlString, eventSourceRef, handles, retryRef, timerRef, timerLive,
                   destroyedRef, listenersRef, dispatchersRef, closures, torn,
                   nSched>>

\* eventSource.onmessage: an unnamed frame on the open handle h
OnMessage(h, raw, id, throwers) ==
    /\ handles[h].readyState = OPEN
    /\ state' = messageState(state, "message", safeParseJson(raw), id)
    /\ emitted' = emitData("message", throwers, raw, safeParseJson(raw))
    /\ last' = "message" /\ replaced' = -1
    /\ UNCHANGED svars
    /\ UNCHANGED <<opts, urlInput, urlString, eventSourceRef, handles, retryRef, timerRef, timerLive,
                   destroyedRef, listenersRef, dispatchersRef, closures, torn,
                   nSched>>

\* a named frame arrives on h: the handle calls every dispatcher attached to
\* it for the name
Dispatch(h, name, raw, id, throwers) ==
    /\ handles[h].readyState = OPEN
    /\ name \in handles[h].listeners
    /\ state' = IF ~HasListeners(name) \/ Len(listenersRef[name]) = 0
                THEN state
                ELSE messageState(state, name, safeParseJson(raw), id)
    /\ emitted' = IF ~HasListeners(name) \/ Len(listenersRef[name]) = 0
                  THEN NoEmit
                  ELSE LET e == emitData(name, throwers, raw, safeParseJson(raw))
                       IN  IF name \in handles[h].extra
                           THEN [e EXCEPT !.invoked = @ \o @]
                           ELSE e
    /\ last' = "dispatch" /\ replaced' = -1
    /\ UNCHANGED svars
    /\ UNCHANGED <<opts, urlInput, urlString, eventSourceRef, handles, retryRef, timerRef, timerLive,
                   destroyedRef, listenersRef, dispatchersRef, closures, torn,
                   nSched>>

\* the retry timer fires: connect()
TimerFire ==
    /\ timerLive
    /\ connect(FALSE)
    /\ last' = "timer"
    /\ replaced' = Replaced
    /\ emitted' = NoEmit
    /\ UNCHANGED svars
    /\ UNCHANGED <<opts, urlInput, urlString, retryRef, listenersRef, state, closures, torn, nSched>>


\* ------------------------------------------------------------- SSEClient
ClientIds == 1..MaxClients
CallIds == 1..MaxCalls

\* a slot no client was constructed in yet
NoClient ==
    [made |-> FALSE, userId |-> NoUser, closed |-> FALSE, heartbeat |-> FALSE,
     timers |-> 0, pipe |-> "ok", closes |-> 0]

\* new SSEClient(options): closed = false, heartbeat = null, a fresh
\* TransformStream whose writer this client owns
NewClient(userId) == [NoClient EXCEPT !.made = TRUE, !.userId = userId]

\* crypto.randomUUID(): an id no client has; 0 when the slots are used up
FreshId ==
    LET free == {c \in ClientIds : ~clients[c].made}
    IN  IF free = {} THEN 0 ELSE CHOOSE x \in free : \A y \in free : x <= y

\* stopHeartbeat() on client record c: heartbeat is whether this.heartbeat
\* holds an interval, timers the intervals of this client that are running
stopHeartbeat(c) ==
    [c EXCEPT !.timers = IF c.heartbeat THEN @ - 1 ELSE @, !.heartbeat = FALSE]

\* startHeartbeat(ms) on client record c
startHeartbeat(c) ==
    [stopHeartbeat(c) EXCEPT !.heartbeat = TRUE, !.timers = @ + 1]

\* close() without the early return on closed
closeAgain(c) == [stopHeartbeat(c) EXCEPT !.closed = TRUE, !.closes = @ + 1]

\* close() on client record c, up to its await of writer.close(): closes
\* counts the writer.close() calls
close(c) ==
    IF c.closed THEN c
    ELSE [stopHeartbeat(c) EXCEPT !.closed = TRUE, !.closes = @ + 1]

\* writeRaw(buf) without the return on closed
writeRawUnguarded(c) == TRUE

\* writeRaw(buf) up to its await: whether it calls writer.write(buf)
writeRaw(c) == ~c.closed

\* writeRaw(buf) whose catch is missing: the rejection of writer.write(buf)
\* reaches the caller
writeFailedThrows(c) == [client |-> c, outcome |-> "rejected"]

\* writeRaw(buf) after the await of a write that failed: the catch runs
\* close(), whose own failure is swallowed, and the promise of send resolves
writeFailed(c) == [client |-> close(c), outcome |-> "resolved"]

\* ------------------------------------------------------------ SSEManager
IdleCall ==
    [kind |-> "idle", id |-> 0, user |-> Null, targets |-> {}, skipped |-> {},
     wrote |-> {}, pending |-> {}, failed |-> {}, status |-> "idle",
     wasRemoved |-> FALSE, wasKnown |-> FALSE]

InitSender ==
    /\ clients = [c \in ClientIds |-> NoClient]
    /\ clientsById = {}
    /\ clientIdsByUser = <<>>
    /\ calls = [k \in CallIds |-> IdleCall]
    /\ done = IdleCall
    /\ removedIds = {}
    /\ goneIds = {}
    /\ sessionClientsById = <<>>

\* addClient(client): both indices after it; id is client.id
addClient(id) ==
    [clientsById |-> clientsById \cup {id},
     clientIdsByUser |->
        IF clients[id].userId # NoUser
        THEN LET u == clients[id].userId
                 set == IF u \in DOMAIN clientIdsByUser THEN clientIdsByUser[u] ELSE {}
             IN  MapSet(clientIdsByUser, u, set \cup {id})
        ELSE clientIdsByUser]

\* removeClient(clientId) that leaves the primary index for after the await
removeIndexesUserOnly(id) ==
    [clientsById |-> clientsById,
     clientIdsByUser |->
        LET u == clients[id].userId
        IN  IF u # NoUser /\ u \in DOMAIN clientIdsByUser
            THEN LET set == clientIdsByUser[u] \ {id}
                 IN  IF set = {} THEN MapDelete(clientIdsByUser, u)
                     ELSE MapSet(clientIdsByUser, u, set)
            ELSE clientIdsByUser]

\* removeClient(clientId) that cleans the primary index only
removeIndexesPrimaryOnly(id) ==
    [clientsById |-> clientsById \ {id}, clientIdsByUser |-> clientIdsByUser]

\* removeClient(clientId) that keeps a user's set when it becomes empty
removeIndexesKeepsEmpty(id) ==
    [clientsById |-> clientsById \ {id},
     clientIdsByUser |->
        LET u == clients[id].userId
        IN  IF u # NoUser /\ u \in DOMAIN clientIdsByUser
            THEN MapSet(clientIdsByUser, u, clientIdsByUser[u] \ {id})
            ELSE clientIdsByUser]

\* removeClient(clientId), the index part ("Clean indexes first")
removeIndexes(id) ==
    [clientsById |-> clientsById \ {id},
     clientIdsByUser |->
        LET u == clients[id].userId
        IN  IF u # NoUser /\ u \in DOMAIN clientIdsByUser
            THEN LET set == clientIdsByUser[u] \ {id}
                 IN  IF set = {} THEN MapDelete(clientIdsByUser, u)
                     ELSE MapSet(clientIdsByUser, u, set)
            ELSE clientIdsByUser]

\* removeClient(clientId) that never closes the stream
removeCloseSkipped(c) == c

\* removeClient(clientId), the client record after "Close the stream last"
removeClose(c) == close(c)

clientsCount == Cardinality(clientsById)

usersCount == Cardinality(DOMAIN clientIdsByUser)

\* sendToUser(userId) that maps send over every registered client
sendToUserTargetsAll(userId) == clientsById

\* the ids sendToUser(userId) maps send over
sendToUserTargets(userId) ==
    IF userId \in DOMAIN clientIdsByUser /\ clientIdsByUser[userId] # {}
    THEN {cid \in clientIdsByUser[userId] : cid \in clientsById}
    ELSE {}

\* the ids broadcast() maps send over
broadcastTargets == clientsById

\* the ids sendToClient(clientId) sends to
sendToClientTargets(clientId) == IF clientId \in clientsById THEN {clientId} ELSE {}

\* ids ever registered: only removeClient takes an id out of the registry
registeredIds == clientsById \cup removedIds

\* the slot a new call's promise is kept in while it is pending
FreeCall ==
    LET free == {k \in CallIds : calls[k].status # "pending"}
    IN  IF free = {} THEN 0 ELSE CHOOSE x \in free : \A y \in free : x <= y

\* a call that sends to targets, up to its first await: every send runs
\* writeRaw up to writer.write(buf)
StartSend(kind, id, user, targets) ==
    LET wrote == {c \in targets : writeRaw(clients[c])}
    IN  [kind |-> kind, id |-> id, user |-> user, targets |-> targets,
         skipped |-> {c \in targets : clients[c].closed},
         wrote |-> wrote, pending |-> wrote, failed |-> {},
         status |-> IF wrote = {} THEN "resolved" ELSE "pending",
         wasRemoved |-> id \in removedIds,
         wasKnown |-> id \in registeredIds]

\* a started call c goes to a free slot while its promise is pending and to
\* done once it has settled
Started(c) ==
    IF c.status = "pending"
    THEN /\ FreeCall # 0
         /\ calls' = [calls EXCEPT ![FreeCall] = c]
         /\ done' = IdleCall
    ELSE /\ done' = c
         /\ UNCHANGED calls

\* the await of a call that is over as soon as one of its sends has settled
SettleFirst(k, c, ok, outcome) ==
    /\ done' = [calls[k] EXCEPT !.pending = @ \ {c},
                                !.failed = IF ok THEN @ ELSE @ \cup {c},
                                !.status = outcome]
    /\ calls' = [calls EXCEPT ![k] = IdleCall]

\* the call in slot k after the promise of its send to (or close of) client c
\* settled with outcome; ok is whether the write went through. The calls
\* await the send itself or Promise.all over the sends: one rejection rejects
\* the call at once, and it resolves when every send has.
Settle(k, c, ok, outcome) ==
    LET call == [calls[k] EXCEPT !.pending = @ \ {c},
                                 !.failed = IF ok THEN @ ELSE @ \cup {c}]
    IN  IF outcome = "rejected"
        THEN /\ done' = [call EXCEPT !.status = "rejected"]
             /\ calls' = [calls EXCEPT ![k] = IdleCall]
        ELSE IF call.pending = {}
        THEN /\ done' = [call EXCEPT !.status = "resolved"]
             /\ calls' = [calls EXCEPT ![k] = IdleCall]
        ELSE /\ calls' = [calls EXCEPT ![k] = call]
             /\ done' = IdleCall

\* ---- the application constructs and registers connections
Construct(userId) ==
    /\ FreshId # 0
    /\ clients' = [clients EXCEPT ![FreshId] = NewClient(userId)]
    /\ UNCHANGED <<clientsById, clientIdsByUser, calls, removedIds, goneIds>>
    /\ done' = IdleCall
    /\ UNCHANGED ovars

AddClient(id) ==
    /\ clients[id].made
    /\ clientsById' = addClient(id).clientsById
    /\ clientIdsByUser' = addClient(id).clientIdsByUser
    /\ goneIds' = goneIds \ {id}
    /\ UNCHANGED <<clients, calls, removedIds>>
    /\ done' = IdleCall
    /\ UNCHANGED ovars

\* createClient(sseOptions): new SSEClient, then addClient
CreateClient(userId) ==
    /\ FreshId # 0
    /\ LET id == FreshId
           cs == [clients EXCEPT ![id] = NewClient(userId)]
       IN  /\ clients' = cs
           /\ clientsById' = clientsById \cup {id}
           /\ clientIdsByUser' =
                IF userId # NoUser
                THEN MapSet(clientIdsByUser, userId,
                            (IF userId \in DOMAIN clientIdsByUser
                             THEN clientIdsByUser[userId] ELSE {}) \cup {id})
                ELSE clientIdsByUser
           /\ UNCHANGED <<calls, removedIds, goneIds>>
    /\ done' = IdleCall
    /\ UNCHANGED ovars

\* removeClient(clientId): the indices are cleaned and close() is started in
\* one run; the promise settles when writer.close() has
RemoveClient(id) ==
    /\ UNCHANGED ovars
    /\ LET base == [IdleCall EXCEPT !.kind = "removeClient", !.id = id,
                                    !.wasRemoved = id \in removedIds,
                                    !.wasKnown = id \in registeredIds]
       IN  IF id \notin clientsById
           THEN /\ Started([base EXCEPT !.status = "resolved"])
                /\ UNCHANGED <<clients, clientsById, clientIdsByUser, removedIds, goneIds>>
           ELSE /\ clientsById' = removeIndexes(id).clientsById
                /\ clientIdsByUser' = removeIndexes(id).clientIdsByUser
                /\ clients' = [clients EXCEPT ![id] = removeClose(@)]
                /\ removedIds' = removedIds \cup {id}
                /\ goneIds' = goneIds \cup {id}
                /\ IF clients[id].closed
                   THEN Started([base EXCEPT !.targets = {id}, !.status = "resolved"])
                   ELSE Started([base EXCEPT !.targets = {id}, !.pending = {id},
                                             !.status = "pending"])

\* ---- sends
SendToClient(id) ==
    /\ Started(StartSend("sendToClient", id, Null, sendToClientTargets(id)))
    /\ UNCHANGED <<clients, clientsById, clientIdsByUser, removedIds, goneIds>>
    /\ UNCHANGED ovars

SendToUser(userId) ==
    /\ Started(StartSend("sendToUser", 0, userId, sendToUserTargets(userId)))
    /\ UNCHANGED <<clients, clientsById, clientIdsByUser, removedIds, goneIds>>
    /\ UNCHANGED ovars

Broadcast ==
    /\ Started(StartSend("broadcast", 0, Null, broadcastTargets))
    /\ UNCHANGED <<clients, clientsById, clientIdsByUser, removedIds, goneIds>>
    /\ UNCHANGED ovars

\* client.send(evt), called on the connection itself
Send(id) ==
    /\ clients[id].made
    /\ Started(StartSend("send", id, Null, {id}))
    /\ UNCHANGED <<clients, clientsById, clientIdsByUser, removedIds, goneIds>>
    /\ UNCHANGED ovars

\* a tick of the heartbeat interval: ping()
Tick(id) ==
    /\ clients[id].timers >= 1
    /\ Started(StartSend("ping", id, Null, {id}))
    /\ UNCHANGED <<clients, clientsById, clientIdsByUser, removedIds, goneIds>>
    /\ UNCHANGED ovars

\* ---- the connection's own API
StartHeartbeat(id) ==
    /\ clients[id].made
    /\ clients' = [clients EXCEPT ![id] = startHeartbeat(@)]
    /\ UNCHANGED <<clientsById, clientIdsByUser, calls, removedIds, goneIds>>
    /\ done' = IdleCall
    /\ UNCHANGED ovars

StopHeartbeat(id) ==
    /\ clients[id].made
    /\ clients' = [clients EXCEPT ![id] = stopHeartbeat(@)]
    /\ UNCHANGED <<clientsById, clientIdsByUser, calls, removedIds, goneIds>>
    /\ done' = IdleCall
    /\ UNCHANGED ovars

\* client.close(), called on the connection itself. On a closed client its
\* promise resolves at once; otherwise it is pending on writer.close() and
\* nobody keeps it.
Close(id) ==
    /\ clients[id].made
    /\ clients' = [clients EXCEPT ![id] = close(@)]
    /\ UNCHANGED <<clientsById, clientIdsByUser, calls, removedIds, goneIds>>
    /\ done' = IF clients[id].closed
               THEN [IdleCall EXCEPT !.kind = "close", !.id = id, !.targets = {id},
                                     !.skipped = {id}, !.status = "resolved"]
               ELSE IdleCall
    /\ UNCHANGED ovars

\* ---- the pipe and the promises of the writer
\* the peer goes away: the read end is cancelled and the write end errors
BreakPipe(id) ==
    /\ clients[id].made
    /\ clients[id].pipe = "ok"
    /\ clients' = [clients EXCEPT ![id].pipe = "broken"]
    /\ UNCHANGED <<clientsById, clientIdsByUser, calls, removedIds, goneIds>>
    /\ done' = IdleCall
    /\ UNCHANGED ovars

\* writer.write(buf) of call k to client id resolves
WriteOk(k, id) ==
    /\ calls[k].kind \notin {"idle", "removeClient"}
    /\ id \in calls[k].pending
    /\ clients[id].pipe = "ok"
    /\ Settle(k, id, TRUE, "resolved")
    /\ UNCHANGED <<clients, clientsById, clientIdsByUser, removedIds, goneIds>>
    /\ UNCHANGED ovars

\* writer.write(buf) of call k to client id rejects: the catch of writeRaw
WriteFail(k, id) ==
    /\ calls[k].kind \notin {"idle", "removeClient"}
    /\ id \in calls[k].pending
    /\ clients[id].pipe = "broken"
    /\ clients' = [clients EXCEPT ![id] = writeFailed(@).client]
    /\ Settle(k, id, FALSE, writeFailed(clients[id]).outcome)
    /\ UNCHANGED <<clientsById, clientIdsByUser, removedIds, goneIds>>
    /\ UNCHANGED ovars

\* writer.close() of the removeClient call k settles (a rejection is swallowed)
CloseSettled(k) ==
    /\ calls[k].kind = "removeClient"
    /\ Settle(k, calls[k].id, TRUE, "resolved")
    /\ UNCHANGED <<clients, clientsById, clientIdsByUser, removedIds, goneIds>>
    /\ UNCHANGED ovars

\* ------------------------------------- SSEManager of client.ts (166-288)
\* client.sessionId: SSEClient declares id, userId and readable and no
\* sessionId, so the property read gives undefined
Undefined == 0

sessionId(id) == Undefined

\* addClient(client): clientsById.set(client.sessionId, client)
sessionAddClient(id) == MapSet(sessionClientsById, sessionId(id), id)

sessionClientsCount == Cardinality(DOMAIN sessionClientsById)

\* the clients broadcast() maps send over
sessionBroadcastTargets == {sessionClientsById[k] : k \in DOMAIN sessionClientsById}

\* the client sendToClient(clientId) sends to
sessionSendToClientTargets(clientId) ==
    IF clientId \in DOMAIN sessionClientsById
    THEN {sessionClientsById[clientId]}
    ELSE {}

SessionCreateClient(userId) ==
    /\ FreshId # 0
    /\ clients' = [clients EXCEPT ![FreshId] = NewClient(userId)]
    /\ sessionClientsById' = sessionAddClient(FreshId)
    /\ done' = IdleCall
    /\ UNCHANGED calls
    /\ UNCHANGED pvars

SessionAddClient(id) ==
    /\ clients[id].made
    /\ sessionClientsById' = sessionAddClient(id)
    /\ done' = IdleCall
    /\ UNCHANGED <<clients, calls>>
    /\ UNCHANGED pvars

SessionRemoveClient(clientId) ==
    /\ UNCHANGED pvars
    /\ LET base == [IdleCall EXCEPT !.kind = "removeClient", !.id = clientId]
       IN  IF clientId \notin DOMAIN sessionClientsById
           THEN /\ Started([base EXCEPT !.status = "resolved"])
                /\ UNCHANGED <<clients, sessionClientsById>>
           ELSE LET id == sessionClientsById[clientId]
                IN  /\ sessionClientsById' = MapDelete(sessionClientsById, clientId)
                    /\ clients' = [clients EXCEPT ![id] = close(@)]
                    /\ IF clients[id].closed
                       THEN Started([base EXCEPT !.targets = {id},
                                                 !.status = "resolved"])
                       ELSE Started([base EXCEPT !.targets = {id}, !.pending = {id},
                                                 !.status = "pending"])

SessionSendToClient(clientId) ==
    /\ Started(StartSend("sendToClient", clientId, Null,
                         sessionSendToClientTargets(clientId)))
    /\ UNCHANGED <<clients, sessionClientsById>>
    /\ UNCHANGED pvars

SessionBroadcast ==
    /\ Started(StartSend("broadcast", 0, Null, sessionBroadcastTargets))
    /\ UNCHANGED <<clients, sessionClientsById>>
    /\ UNCHANGED pvars

\* ------------------------------------------------------- specifications
Receiver ==
    \/ Connect
    \/ Disconnect
    \/ \E n \in Names, f \in Handlers : Subscribe(n, f)
    \* each closure is called once and dropped (Listening calls them again)
    \/ \E n \in Names, f \in Handlers : Unsubscribe(n, f, FALSE, FALSE)
    \/ \E h \in HandleIds, th \in SUBSET Handlers : OnOpen(h, th)
    \/ \E h \in HandleIds, rs \in {CONNECTING, CLOSED}, th \in SUBSET Handlers :
          OnError(h, rs, th)
    \/ \E h \in HandleIds, th \in SUBSET Handlers : OnOpenFrame(h, th)
    \/ \E h \in HandleIds, th \in SUBSET Handlers : OnErrorFrame(h, th)
    \/ \E h \in HandleIds, raw \in Payloads, id \in EventIds, th \in SUBSET Handlers :
          OnMessage(h, raw, id, th)
    \/ \E h \in HandleIds, n \in NamedNames, raw \in Payloads, id \in EventIds :
          \E th \in SUBSET Handlers : Dispatch(h, n, raw, id, th)
    \/ TimerFire

\* the connection and its unnamed frames: no subscription
Connection ==
    \/ Connect
    \/ Disconnect
    \/ \E h \in HandleIds, th \in SUBSET Handlers : OnOpen(h, th)
    \/ \E h \in HandleIds, rs \in {CONNECTING, CLOSED}, th \in SUBSET Handlers :
          OnError(h, rs, th)
    \/ \E h \in HandleIds, th \in SUBSET Handlers : OnOpenFrame(h, th)
    \/ \E h \in HandleIds, th \in SUBSET Handlers : OnErrorFrame(h, th)
    \/ \E h \in HandleIds, raw \in Payloads, id \in EventIds, th \in SUBSET Handlers :
          OnMessage(h, raw, id, th)
    \/ TimerFire

\* the subscriptions of an application that keeps the closures it has called
\* and may call them again, over a connection that opens and never fails
Listening ==
    \/ Connect
    \/ Disconnect
    \/ \E n \in Names, f \in Handlers : Subscribe(n, f)
    \/ \E n \in Names, f \in Handlers, ran \in BOOLEAN, keep \in BOOLEAN :
          Unsubscribe(n, f, ran, keep)
    \/ \E h \in HandleIds : OnOpen(h, {})

\* the connection of an application whose "error" handlers call connect()
Reconnecting ==
    \/ Connection
    \/ \E f \in Handlers : Subscribe("error", f)
    \/ \E h \in HandleIds, rs \in {CONNECTING, CLOSED}, f \in Handlers :
          OnErrorReconnect(h, rs, f)

Sender ==
    \/ \E u \in Users \cup {NoUser} : Construct(u)
    \/ \E u \in Users \cup {NoUser} : CreateClient(u)
    \/ \E id \in ClientIds : AddClient(id)
    \/ \E id \in ClientIds : RemoveClient(id)
    \/ \E id \in ClientIds : SendToClient(id)
    \/ \E u \in Users : SendToUser(u)
    \/ Broadcast
    \/ \E id \in ClientIds : Send(id)
    \/ \E id \in ClientIds : Tick(id)
    \/ \E id \in ClientIds : StartHeartbeat(id)
    \/ \E id \in ClientIds : StopHeartbeat(id)
    \/ \E id \in ClientIds : Close(id)
    \/ \E id \in ClientIds : BreakPipe(id)
    \/ \E k \in CallIds, id \in ClientIds : WriteOk(k, id)
    \/ \E k \in CallIds, id \in ClientIds : WriteFail(k, id)
    \/ \E k \in CallIds : CloseSettled(k)

\* the connections on their own: what the application and the heartbeat do
\* with an SSEClient, whether it is registered or not
Client ==
    \/ \E u \in Users \cup {NoUser} : Construct(u)
    \/ \E id \in ClientIds : Send(id)
    \/ \E id \in ClientIds : Tick(id)
    \/ \E id \in ClientIds : StartHeartbeat(id)
    \/ \E id \in ClientIds : StopHeartbeat(id)
    \/ \E id \in ClientIds : Close(id)
    \/ \E id \in ClientIds : BreakPipe(id)
    \/ \E k \in CallIds, id \in ClientIds : WriteOk(k, id)
    \/ \E k \in CallIds, id \in ClientIds : WriteFail(k, id)

\* the registry and its fan-out, without heartbeats and direct sends
Registry ==
    \/ \E u \in Users \cup {NoUser} : Construct(u)
    \/ \E u \in Users \cup {NoUser} : CreateClient(u)
    \/ \E id \in ClientIds : AddClient(id)
    \/ \E id \in ClientIds : RemoveClient(id)
    \/ \E id \in ClientIds : SendToClient(id)
    \/ \E u \in Users : SendToUser(u)
    \/ Broadcast
    \/ \E id \in ClientIds : Close(id)
    \/ \E id \in ClientIds : BreakPipe(id)
    \/ \E k \in CallIds, id \in ClientIds : WriteOk(k, id)
    \/ \E k \in CallIds, id \in ClientIds : WriteFail(k, id)
    \/ \E k \in CallIds : CloseSettled(k)

\* the SSEManager of client.ts and the clients it holds
Session ==
    \/ \E u \in Users \cup {NoUser} : SessionCreateClient(u)
    \/ \E id \in ClientIds : SessionAddClient(id)
    \/ \E id \in ClientIds : SessionRemoveClient(id)
    \/ \E id \in ClientIds : SessionSendToClient(id)
    \/ SessionBroadcast
    \/ \E id \in ClientIds : Close(id)
    \/ \E id \in ClientIds : BreakPipe(id)
    \/ \E k \in CallIds, id \in ClientIds : WriteOk(k, id)
    \/ \E k \in CallIds, id \in ClientIds : WriteFail(k, id)

\* the connection of a hook that is rendered with one of two urls
Retrying ==
    \/ Connection
    \/ \E input \in {PlainUrl, [PlainUrl EXCEPT !.url = <<"/", "a", "p", "i">>]} :
          Rerender(input)

\* the hook rendered with one url after another
Urls == \E input \in UrlInputs : Rerender(input)

Init == InitReceiver(OptsChoices) /\ InitHookUrl({PlainUrl}) /\ InitSender

InitShort == InitReceiver({ShortOpts}) /\ InitHookUrl({PlainUrl}) /\ InitSender

InitDefaults == InitReceiver({DefaultOpts}) /\ InitHookUrl({PlainUrl}) /\ InitSender

InitUrls == InitReceiver({ShortOpts}) /\ InitHookUrl(UrlInputs) /\ InitSender

\* the receiver under a short reconnect policy, and with reconnect off
Spec == Init /\ [][Receiver]_vars

\* the receiver's subscriptions when closures are kept and called again
SpecClosures == InitShort /\ [][Listening]_vars

\* the receiver's connection when "error" handlers call connect()
SpecReconnect == InitShort /\ [][Reconnecting]_vars

\* the receiver's connection under the default reconnect policy
SpecDefaults == InitDefaults /\ [][Connection]_vars

\* the sender
SpecSender == InitShort /\ [][Sender]_vars

\* the connections alone
SpecClient == InitShort /\ [][Client]_vars

\* the registry and its fan-out
SpecRegistry == InitShort /\ [][Registry]_vars

\* the SSEManager of client.ts
SpecSession == InitShort /\ [][Session]_vars

\* the url the hook connects to, over the url arguments
SpecUrl == InitUrls /\ [][Urls]_vars

\* the connection with a retry timer that fires unless it is cleared:
\* setTimeout runs its callback once the delay is over
SpecRetry == InitShort /\ [][Retrying]_vars /\ WF_vars(TimerFire)

\* ------------------------------------------------------------ properties
\* non-reserved names with at least one active handler
NamedActive ==
    {n \in DOMAIN listenersRef : ~isReservedEvent(n) /\ Len(listenersRef[n]) >= 1}

\* names with a low-level dispatcher attached to the current handle
AttachedNames ==
    IF eventSourceRef = 0 THEN {} ELSE handles[eventSourceRef].listeners

RetryScheduling ==
    /\ [](nSched <= opts.maxRetries)
    /\ [][nSched' = nSched + 1 =>
            /\ opts.reconnectEnabled
            /\ ~destroyedRef
            /\ retryRef < opts.maxRetries
            /\ retryRef' = retryRef + 1
            /\ timerLive']_vars

\* the retries ran out: a terminal error with attempt = maxRetries scheduled
\* nothing
RetrySchedulingWitness ==
    /\ opts.reconnectEnabled
    /\ ~destroyedRef
    /\ last = "error"
    /\ state.readyState = CLOSED
    /\ retryRef = opts.maxRetries
    /\ nSched = opts.maxRetries
    /\ ~timerLive

\* the delays the claim lists for the default policy
DefaultDelays ==
    <<1000, 2000, 4000, 8000, 15000, 15000, 15000, 15000, 15000, 15000>>

\* C4: the k-th consecutive retry waits min(initialDelayMs * 2^(k-1),
\* maxDelayMs): 1000, 2000, 4000, 8000, 15000, 15000, ... under the defaults.
BackoffDelays ==
    timerLive =>
        /\ nSched \in 1..Len(DefaultDelays)
        /\ timerRef = DefaultDelays[nSched]
        /\ timerRef = Min(DefaultInitialDelayMs * (2 ^ (nSched - 1)), DefaultMaxDelayMs)

\* the sixth consecutive retry, the second at the cap
BackoffDelaysWitness == timerLive /\ nSched = 6 /\ timerRef = 15000

\* C10 as stated: in every published snapshot connected is true exactly when
\* readyState is OPEN.
ConnectedIffOpen == state.connected <=> (state.readyState = OPEN)

\* users with at least one registered connection
UsersRegistered ==
    {clients[id].userId : id \in {i \in clientsById : clients[i].userId # NoUser}}

\* every call of the sender whose promise is pending or has just settled
SenderCalls == {calls[k] : k \in CallIds} \cup {done}

\* C5: every id in a user's set has an entry in the primary index, no user
\* maps to an empty set, and every registered connection with a userId is in
\* its user's set.
RegistryIndexes ==
    /\ \A u \in DOMAIN clientIdsByUser :
          clientIdsByUser[u] # {} /\ clientIdsByUser[u] \subseteq clientsById
    /\ \A id \in clientsById :
          clients[id].userId # NoUser =>
              /\ clients[id].userId \in DOMAIN clientIdsByUser
              /\ id \in clientIdsByUser[clients[id].userId]

\* one of two connections of a user was removed, the other is registered
RegistryIndexesWitness ==
    \E r \in removedIds, id \in clientsById :
        /\ r \notin clientsById
        /\ clients[r].userId # NoUser
        /\ clients[r].userId = clients[id].userId

\* C6 as stated: a connection whose write failed is closed and is in neither
\* index of the registry any more.
WriteFailureDeregisters ==
    \A id \in done.failed :
        /\ clients[id].closed
        /\ id \notin clientsById
        /\ \A u \in DOMAIN clientIdsByUser : id \notin clientIdsByUser[u]

\* C7: a broadcast or sendToUser one of whose writes fails still writes to
\* every other target that was not closed, and resolves.
FanOutIndependent ==
    done.kind \in {"broadcast", "sendToUser"} =>
        /\ done.status = "resolved"
        /\ done.pending = {}
        /\ done.wrote = done.targets \ done.skipped

\* a broadcast to two connections: one write failed, the other went through
FanOutIndependentWitness ==
    /\ done.kind = "broadcast"
    /\ done.status = "resolved"
    /\ Cardinality(done.wrote) >= 2
    /\ done.failed # {}
    /\ done.wrote \ done.failed # {}

\* C8: sendToClient(id) after removeConnection(id), or for an id that was
\* never registered, writes to no connection and does not reject.
SendAfterRemoveIsNoOp ==
    \A c \in SenderCalls :
        (c.kind = "sendToClient" /\ (c.wasRemoved \/ ~c.wasKnown)) =>
            (c.wrote = {} /\ c.status = "resolved")

\* sendToClient for an id that was removed and registered again
SendAfterRemoveIsNoOpWitness ==
    /\ done.kind = "sendToClient"
    /\ done.wasRemoved
    /\ done.id \in clientsById
    /\ done.status = "resolved"

\* C9: usersCount() is the number of distinct userIds with a registered
\* connection and clientsCount() the number of registered connections.
CountsMatchRegistry ==
    /\ usersCount = Cardinality(UsersRegistered)
    /\ clientsCount = Cardinality({id \in ClientIds : clients[id].made /\ id \in clientsById})

\* the last of a user's two connections was removed: nobody is counted
CountsMatchRegistryWitness ==
    /\ usersCount = 0
    /\ clientsCount = 0
    /\ \E a \in removedIds, b \in removedIds :
          a # b /\ clients[a].userId # NoUser /\ clients[a].userId = clients[b].userId

\* C11: when a handler throws during a dispatch, every handler registered for
\* the name is still called for that event, no exception leaves emit, and the
\* rest of the callback runs as it does when nobody throws: the handle, the
\* snapshot's connected/readyState and the retry state are those of the
\* callback alone.
HandlerFailureIsolated ==
    [][emitted'.threw # {} =>
        /\ ~emitted'.escaped
        /\ emitted'.invoked = listenersRef[emitted'.name]
        /\ listenersRef' = listenersRef
        /\ eventSourceRef' = eventSourceRef
        /\ destroyedRef' = destroyedRef
        /\ last' \in {"message", "dispatch"} =>
              /\ UNCHANGED <<handles, dispatchersRef, retryRef, timerRef, timerLive>>
              /\ state'.connected = state.connected
              /\ state'.readyState = state.readyState
              /\ state'.error = state.error
        /\ last' = "open" =>
              /\ retryRef' = 0
              /\ state'.connected /\ state'.readyState = OPEN
              /\ NamedActive \subseteq handles'[eventSourceRef].listeners
              /\ UNCHANGED <<timerRef, timerLive>>
        /\ last' = "error" =>
              /\ ~state'.connected
              /\ (state'.readyState = CLOSED /\ opts.reconnectEnabled
                    /\ retryRef < opts.maxRetries)
                  => (timerLive' /\ retryRef' = retryRef + 1)
              /\ UNCHANGED dispatchersRef
    ]_vars

\* the first of two handlers of "notification" threw, the second was called
HandlerFailureIsolatedWitness ==
    /\ emitted.name = "notification"
    /\ Len(emitted.invoked) = 2
    /\ emitted.invoked[1] \in emitted.threw
    /\ emitted.invoked[2] \notin emitted.threw

\* the calls that were made in the step: settled at once, or pending in a slot
\* that held no pending call
StartedNow ==
    {c \in {done'} : c.kind # "idle" /\ calls' = calls}
        \cup {calls'[k] : k \in {j \in CallIds : /\ calls[j].status # "pending"
                                                  /\ calls'[j].status = "pending"}}

\* C12: close() closes the write end at most once per connection: the first
\* call sets closed, stops the heartbeat and calls writer.close() once, a call
\* on a closed connection changes nothing; a send or ping on a closed
\* connection writes nothing.
CloseIdempotent ==
    [][\A id \in ClientIds :
        /\ clients'[id].closes <= 1
        /\ clients[id].closed =>
              /\ clients'[id].closed
              /\ clients'[id].closes = clients[id].closes
        /\ (clients[id].made /\ ~clients[id].closed /\ clients'[id].closed) =>
              /\ ~clients'[id].heartbeat
              /\ clients'[id].closes = clients[id].closes + 1
        /\ (done'.kind = "close" /\ done'.id = id) => clients'[id] = clients[id]
        /\ \A c \in StartedNow :
              (c.kind \in {"send", "ping"} /\ c.id = id /\ clients[id].closed)
                  => (c.wrote = {} /\ c.status = "resolved")
    ]_vars

\* close() was called on a connection that was closed already
CloseIdempotentWitness ==
    /\ done.kind = "close"
    /\ clients[done.id].closed
    /\ clients[done.id].closes = 1

\* C13: at most one underlying handle is not closed, it is the current one,
\* and no dispatcher is left on a handle that is not the current one.
OneLiveHandle ==
    /\ Cardinality({h \in HandleIds : handles[h].readyState # CLOSED}) <= 1
    /\ \A h \in HandleIds :
          /\ handles[h].readyState # CLOSED => h = eventSourceRef
          /\ h # eventSourceRef => handles[h].listeners = {}

\* connect() ran while the previous handle was still CONNECTING
OneLiveHandleWitness ==
    /\ last = "connect"
    /\ replaced = CONNECTING
    /\ eventSourceRef # 0
    /\ handles[eventSourceRef].readyState = CONNECTING

\* C14: connect() while the current handle reports OPEN changes nothing: the
\* handle, the dispatchers, the retry state and the snapshot stay as they are
\* and no handle is created.
ConnectWhileOpenIsNoOp ==
    [][(last' = "connect" /\ eventSourceRef # 0
            /\ handles[eventSourceRef].readyState = OPEN)
        => UNCHANGED <<handles, eventSourceRef, dispatchersRef, listenersRef,
                       retryRef, timerRef, timerLive, destroyedRef, state>>
    ]_vars

\* connect() just ran on an open handle that carries dispatchers
ConnectWhileOpenIsNoOpWitness ==
    /\ last = "connect"
    /\ eventSourceRef # 0
    /\ handles[eventSourceRef].readyState = OPEN
    /\ handles[eventSourceRef].listeners # {}

DecodeFailureLocal ==
    [][emitted'.raw = "not-json" =>
        /\ emitted'.data = [t |-> "string", v |-> "not-json"]
        /\ state'.lastData = [t |-> "string", v |-> "not-json"]
        /\ emitted'.name \notin {"error", "open"}
        /\ ~emitted'.escaped
        /\ emitted'.invoked =
              (IF HasListeners(emitted'.name) THEN listenersRef[emitted'.name] ELSE <<>>)
        /\ state'.error = state.error
        /\ state'.connected = state.connected
        /\ state'.readyState = state.readyState
        /\ UNCHANGED <<retryRef, timerRef, timerLive, handles, eventSourceRef,
                       destroyedRef>>
    ]_vars

\* "not-json" arrived as a notification and was delivered as a string
DecodeFailureLocalWitness ==
    /\ emitted.raw = "not-json"
    /\ emitted.name = "notification"
    /\ Len(emitted.invoked) >= 1
    /\ state.lastData = [t |-> "string", v |-> "not-json"]
    /\ ~state.error

\* fan-out calls and lookups of the registry
RegistryReads == {"sendToClient", "sendToUser", "broadcast"}

\* C16: the two indices always agree on every connection that has a userId,
\* and no call that reads the registry targets a connection removeClient was
\* called for (and addClient not since), whether its close() has settled or
\* not.
IndexRemovalAtomic ==
    /\ [](\A id \in ClientIds :
            (clients[id].made /\ clients[id].userId # NoUser) =>
                (id \in clientsById <=>
                    /\ clients[id].userId \in DOMAIN clientIdsByUser
                    /\ id \in clientIdsByUser[clients[id].userId]))
    /\ [][\A c \in StartedNow :
            c.kind \in RegistryReads =>
                /\ c.targets \subseteq clientsById
                /\ c.targets \cap goneIds = {}
         ]_vars

\* sendToUser ran for a user while the close() of a removed connection of
\* that user was pending, and targeted the user's other connection only
IndexRemovalAtomicWitness ==
    \E k \in CallIds :
        /\ calls[k].kind = "removeClient"
        /\ calls[k].status = "pending"
        /\ done.kind = "sendToUser"
        /\ done.targets # {}
        /\ calls[k].id \notin done.targets
        /\ clients[calls[k].id].userId = done.user

\* C17: a broadcast or sendToUser is pending as long as one of its writes is
\* outstanding, and resolved only with none outstanding; it never rejects.
CompletionAfterAll ==
    \A c \in SenderCalls :
        c.kind \in {"broadcast", "sendToUser"} =>
            /\ c.status \in {"pending", "resolved"}
            /\ c.status = "resolved" <=> c.pending = {}
            /\ c.pending \subseteq c.wrote
            /\ c.failed \subseteq c.wrote \ c.pending

\* a broadcast to two connections: one write has failed, the other is
\* outstanding, the broadcast is pending
CompletionAfterAllWitness ==
    \E k \in CallIds :
        /\ calls[k].kind = "broadcast"
        /\ calls[k].status = "pending"
        /\ Cardinality(calls[k].wrote) = 2
        /\ Cardinality(calls[k].pending) = 1
        /\ calls[k].failed # {}

\* C18: sendToUser(userId) sends to exactly the registered connections of that
\* user, writes to those of them that are not closed, and with no such
\* connection writes nothing and resolves.
SendToUserExact ==
    [][\A c \in StartedNow :
        c.kind = "sendToUser" =>
            /\ c.targets = {id \in clientsById : clients[id].userId = c.user}
            /\ c.wrote = {id \in c.targets : ~clients[id].closed}
            /\ c.status # "rejected"
            /\ c.targets = {} => (c.wrote = {} /\ c.status = "resolved")
    ]_vars

\* a sendToUser that wrote to a user's connection and left another user's
\* registered connection alone, then a sendToUser for a user with none
SendToUserExactWitness ==
    \E k \in CallIds :
        /\ calls[k].kind = "sendToUser"
        /\ calls[k].wrote # {}
        /\ \E id \in clientsById \ calls[k].targets :
              clients[id].userId \notin {NoUser, calls[k].user}
        /\ done.kind = "sendToUser"
        /\ done.targets = {}
        /\ done.status = "resolved"

\* C19 as stated, for the SSEManager of client.ts: every connection the
\* registry holds is stored under its own id, and the count is the number of
\* connections it was given.
SessionRegisteredUnderOwnId ==
    \A key \in DOMAIN sessionClientsById : sessionClientsById[key] = key

\* C19 for the SSEManager of part_001: createClient grows clientsCount by one
\* and registers the connection under its id, sendToClient for a registered id
\* targets that connection, removeClient for a registered id takes it out and
\* closes it.
RegisteredUnderOwnId ==
    [][/\ \A id \in ClientIds :
            (~clients[id].made /\ clients'[id].made /\ clientsById' # clientsById) =>
                /\ clientsCount' = clientsCount + 1
                /\ clientsById' = clientsById \cup {id}
       /\ \A c \in StartedNow :
            /\ (c.kind = "sendToClient" /\ c.id \in clientsById) =>
                  /\ c.targets = {c.id}
                  /\ ~clients[c.id].closed => c.wrote = {c.id}
            /\ (c.kind = "removeClient" /\ c.id \in clientsById) =>
                  /\ c.id \notin clientsById'
                  /\ clients'[c.id].closed
    ]_vars

\* the pieces of s between the occurrences of the character sep
RECURSIVE Split(_, _)
Split(s, sep) ==
    LET at == {i \in 1..Len(s) : s[i] = sep}
    IN  IF at = {} THEN <<s>>
        ELSE LET i == CHOOSE x \in at : \A y \in at : x <= y
             IN  <<SubSeq(s, 1, i - 1)>> \o Split(SubSeq(s, i + 1, Len(s)), sep)

\* the character a %XX escape stands for
Unescaped(a, b) ==
    CASE <<a, b>> = <<"2", "0">> -> " "
      [] <<a, b>> = <<"2", "5">> -> "%"
      [] <<a, b>> = <<"2", "6">> -> "&"
      [] <<a, b>> = <<"2", "F">> -> "/"
      [] <<a, b>> = <<"3", "D">> -> "="
      [] <<a, b>> = <<"3", "F">> -> "?"
      [] OTHER -> "<bad escape>"

\* percent-decoding
RECURSIVE PercentDecoded(_)
PercentDecoded(s) ==
    IF s = <<>> THEN <<>>
    ELSE IF Head(s) = "%" /\ Len(s) >= 3
    THEN <<Unescaped(s[2], s[3])>> \o PercentDecoded(SubSeq(s, 4, Len(s)))
    ELSE <<Head(s)>> \o PercentDecoded(Tail(s))

\* the entries of the query whose value is neither null nor absent
PresentEntries ==
    SelectSeq(ObjectEntries(urlInput), LAMBDA e : e.v.t = "string")

\* the input of the scenario: {url: "/api/sse", query: {user_id: "u1", channel: null}}
ScenarioUrlInput ==
    [t |-> "options", url |-> <<"/", "a", "p", "i", "/", "s", "s", "e">>,
     hasQuery |-> TRUE,
     query |-> << [k |-> <<"u", "s", "e", "r", "_", "i", "d">>,
                   v |-> StringValue(<<"u", "1">>)],
                  [k |-> <<"c", "h", "a", "n", "n", "e", "l">>, v |-> NullValue] >>]

\* C21: buildUrl returns a literal url unchanged; for {url, query} the result
\* is the url followed by nothing when no query entry has a value, and else by
\* "?" and one key=value pair per entry whose value is neither null nor
\* absent, in the order of the entries, joined by "&", key and value
\* percent-encoded; the scenario input gives "/api/sse?user_id=u1".
BuildUrlKeepsPresentEntries ==
    /\ urlInput.t = "string" => urlString = urlInput.url
    /\ urlInput.t = "options" =>
          LET base == urlInput.url
              rest == SubSeq(urlString, Len(base) + 1, Len(urlString))
          IN  /\ Len(urlString) >= Len(base)
              /\ SubSeq(urlString, 1, Len(base)) = base
              /\ PresentEntries = <<>> <=> rest = <<>>
              /\ PresentEntries # <<>> =>
                    /\ Head(rest) = "?"
                    /\ LET pairs == Split(Tail(rest), "&")
                       IN  /\ Len(pairs) = Len(PresentEntries)
                           /\ \A i \in 1..Len(pairs) :
                                 LET kv == Split(pairs[i], "=")
                                 IN  /\ Len(kv) = 2
                                     /\ PercentDecoded(kv[1]) = PresentEntries[i].k
                                     /\ PercentDecoded(kv[2]) = PresentEntries[i].v.s
    /\ urlInput = ScenarioUrlInput =>
          urlString = <<"/", "a", "p", "i", "/", "s", "s", "e", "?",
                        "u", "s", "e", "r", "_", "i", "d", "=", "u", "1">>

\* the hook was rendered with the scenario input after another url
BuildUrlKeepsPresentEntriesWitness ==
    /\ urlInput = ScenarioUrlInput
    /\ last = "disconnect"
    /\ Len(urlString) = 19

\* C22: when the handle opens, attempt is 0 again, the snapshot says
\* connected = true, readyState = OPEN, error = null, the handlers of open
\* are called, and every non-reserved name of the listener registry gets a
\* dispatcher on the handle beside those it has; and while the current handle
\* is OPEN the names with a dispatcher are exactly the non-reserved names with
\* a handler, under any subscribe and unsubscribe calls.
OpenAttachesAll ==
    /\ [][last' = "open" =>
            /\ retryRef' = 0
            /\ state'.connected /\ state'.readyState = OPEN /\ ~state'.error
            /\ emitted'.name = "open"
            /\ emitted'.invoked =
                  (IF HasListeners("open") THEN listenersRef["open"] ELSE <<>>)
            /\ eventSourceRef' = eventSourceRef /\ eventSourceRef # 0
            /\ handles'[eventSourceRef].readyState = OPEN
            /\ handles'[eventSourceRef].listeners =
                  handles[eventSourceRef].listeners
                      \cup {n \in DOMAIN listenersRef : ~isReservedEvent(n)}
            /\ dispatchersRef' = handles'[eventSourceRef].listeners
       ]_vars
    /\ [](eventSourceRef # 0 /\ handles[eventSourceRef].readyState = OPEN
            => AttachedNames = NamedActive /\ dispatchersRef = NamedActive)

\* the handle just opened: the handler of open ran and the name subscribed to
\* has its dispatcher
OpenAttachesAllWitness ==
    /\ last = "open"
    /\ Len(emitted.invoked) = 1
    /\ Cardinality(AttachedNames) = 1
    /\ AttachedNames = NamedActive
    /\ state.connected /\ ~state.error /\ retryRef = 0

\* C23: every run of onerror publishes connected = false, error set and the
\* readyState the handle has, and calls the handlers of error with the event;
\* nothing is thrown; with the handle in CLOSED the reconnect policy decides
\* (a retry is scheduled when reconnect is enabled, the manager not destroyed
\* and attempt < maxRetries), with the handle in any other state the retry
\* state is left alone.
ErrorPublishedAndRetried ==
    [][last' = "error" =>
        /\ ~state'.connected /\ state'.error
        /\ eventSourceRef # 0 /\ eventSourceRef' = eventSourceRef
        /\ state'.readyState = handles'[eventSourceRef].readyState
        /\ emitted'.name = "error"
        /\ emitted'.data = [t |-> "event", v |-> "error"]
        /\ emitted'.invoked =
              (IF HasListeners("error") THEN listenersRef["error"] ELSE <<>>)
        /\ ~emitted'.escaped
        /\ UNCHANGED <<listenersRef, dispatchersRef, destroyedRef>>
        /\ IF /\ handles'[eventSourceRef].readyState = CLOSED
              /\ opts.reconnectEnabled /\ ~destroyedRef
              /\ retryRef < opts.maxRetries
           THEN /\ retryRef' = retryRef + 1
                /\ timerLive' /\ timerRef' # 0
                /\ nSched' = nSched + 1
           ELSE UNCHANGED <<retryRef, timerRef, timerLive, nSched>>
    ]_vars

\* the handle failed while CONNECTING and goes on trying by itself: the
\* handler of error ran and no retry was scheduled
ErrorPublishedAndRetriedWitness ==
    /\ last = "error"
    /\ state.readyState = CONNECTING
    /\ state.error /\ ~state.connected
    /\ Len(emitted.invoked) >= 1
    /\ opts.reconnectEnabled /\ retryRef < opts.maxRetries
    /\ ~timerLive

\* C24: a handle that fails into CLOSED with reconnect enabled, the manager
\* not destroyed and attempt < maxRetries leaves a retry timer pending; from
\* there, unless connect() or disconnect() is called first, the timer fires;
\* and the connect() the timer runs opens a new handle, CONNECTING, to the url
\* of the handle that failed.
RetryReconnects ==
    /\ [][(/\ last' = "error"
           /\ eventSourceRef # 0
           /\ handles'[eventSourceRef].readyState = CLOSED
           /\ opts.reconnectEnabled /\ ~destroyedRef
           /\ retryRef < opts.maxRetries) => timerLive']_vars
    /\ (last = "error" /\ timerLive) ~> (last \in {"timer", "connect", "disconnect"})
    /\ [][last' = "timer" =>
            /\ eventSourceRef # 0 /\ eventSourceRef' # 0
            /\ handles[eventSourceRef].readyState = CLOSED
            /\ handles'[eventSourceRef'].readyState = CONNECTING
            /\ ~handles'[eventSourceRef'].opened
            /\ handles'[eventSourceRef'].url = handles[eventSourceRef].url
            /\ handles'[eventSourceRef'].url = urlString
            /\ ~timerLive'
       ]_vars

\* the timer of the second retry fired and the new handle is connecting to
\* the url the hook was last rendered with
RetryReconnectsWitness ==
    /\ last = "timer"
    /\ retryRef = 2
    /\ eventSourceRef # 0
    /\ handles[eventSourceRef].readyState = CONNECTING
    /\ handles[eventSourceRef].url = <<"/", "a", "p", "i">>

\* the names whose handlers a subscribe step added to
SubscribedNames ==
    {n \in DOMAIN listenersRef' :
        ~HasListeners(n) \/ listenersRef'[n] # listenersRef[n]}

\* C25: subscribe for a non-reserved name attaches its dispatcher at once
\* when a handle exists and the name has none, and attaches nothing else;
\* with no handle it only records the handler; and whenever the current
\* handle is OPEN every non-reserved name with a handler has its dispatcher
\* and a frame of that name can be dispatched, so that a handler recorded
\* before connect() is called with the frames that come after the open.
SubscribeAttachesOrDefers ==
    /\ [][last' = "subscribe" =>
            /\ \A n \in SubscribedNames :
                  /\ (eventSourceRef # 0 /\ ~isReservedEvent(n)) =>
                        /\ n \in handles'[eventSourceRef].listeners
                        /\ n \in dispatchersRef'
                        /\ n \notin dispatchersRef =>
                              /\ handles'[eventSourceRef].listeners =
                                    handles[eventSourceRef].listeners \cup {n}
                              /\ dispatchersRef' = dispatchersRef \cup {n}
                  /\ (eventSourceRef = 0 \/ isReservedEvent(n)) =>
                        UNCHANGED <<handles, dispatchersRef>>
            /\ UNCHANGED eventSourceRef
            /\ \A h \in HandleIds : handles'[h].readyState = handles[h].readyState
       ]_vars
    /\ [](eventSourceRef # 0 /\ handles[eventSourceRef].readyState = OPEN =>
            \A n \in NamedActive :
                /\ n \in handles[eventSourceRef].listeners
                /\ ENABLED Dispatch(eventSourceRef, n, "not-json", "", {}))
    /\ [][(last' = "dispatch" /\ emitted'.name # Null) =>
            /\ emitted'.name \in NamedActive
            /\ emitted'.invoked = listenersRef[emitted'.name]]_vars

\* after disconnect(), with no handle, a handler was subscribed for a
\* non-reserved name: it is recorded and nothing is attached
SubscribeAttachesOrDefersWitness ==
    /\ last = "subscribe"
    /\ torn.on
    /\ eventSourceRef = 0
    /\ NamedActive # {}
    /\ dispatchersRef = {}

\* the handlers of name n, in order, in the registry r
HandlersOf(r, n) == IF n \in DOMAIN r THEN r[n] ELSE <<>>

\* C26: a call of an unsubscribe closure takes at most its own handler out of
\* its own name and leaves every other handler in place and in order; the
\* dispatcher of a named event is detached in that step if and only if the
\* step removed the last handler of the name; the step attaches nothing; and
\* no handle ever carries a dispatcher for open, error or message.
UnsubscribeDetachesOnLast ==
    /\ [][last' = "unsubscribe" =>
            /\ \E pair \in closures :
                  \A n \in Names :
                      HandlersOf(listenersRef', n) =
                          IF n = pair[1]
                          THEN SelectSeq(HandlersOf(listenersRef, n),
                                         LAMBDA f : f # pair[2])
                          ELSE HandlersOf(listenersRef, n)
            /\ UNCHANGED eventSourceRef
            /\ \A n \in NamedNames :
                  /\ n \in AttachedNames' => n \in AttachedNames
                  /\ (n \in AttachedNames /\ n \notin AttachedNames') <=>
                        /\ n \in AttachedNames
                        /\ HandlersOf(listenersRef, n) # <<>>
                        /\ HandlersOf(listenersRef', n) = <<>>
                  /\ n \in dispatchersRef' <=> n \in AttachedNames'
       ]_vars
    /\ [](/\ dispatchersRef \cap ReservedNames = {}
          /\ \A h \in HandleIds : handles[h].listeners \cap ReservedNames = {})

\* one of two handlers of a name was unsubscribed on an open handle: the
\* other is left and the dispatcher is still attached
UnsubscribeDetachesOnLastWitness ==
    /\ last = "unsubscribe"
    /\ eventSourceRef # 0
    /\ handles[eventSourceRef].readyState = OPEN
    /\ \E n \in NamedNames :
          /\ closures = {<<n, "h2", FALSE>>}
          /\ HandlersOf(listenersRef, n) = <<"h2">>
          /\ n \in AttachedNames

\* C27: a named frame calls every handler the registry holds for the name at
\* that time, each once, in the order of registration (subscribe appends a
\* new handler after the ones there), and sets lastEventName to the name; no
\* handle ever carries two dispatchers for one name.
DispatchOncePerHandler ==
    /\ [][(last' = "dispatch" /\ emitted'.name # Null) =>
            /\ emitted'.invoked = listenersRef[emitted'.name]
            /\ \A i, j \in 1..Len(emitted'.invoked) :
                  i # j => emitted'.invoked[i] # emitted'.invoked[j]
            /\ state'.lastEventName = emitted'.name
            /\ emitted'.name \in AttachedNames
            /\ UNCHANGED <<listenersRef, handles, dispatchersRef>>
       ]_vars
    /\ [][last' = "subscribe" =>
            \A n \in Names :
                \/ HandlersOf(listenersRef', n) = HandlersOf(listenersRef, n)
                \/ \E f \in Handlers :
                      /\ ~InSeq(HandlersOf(listenersRef, n), f)
                      /\ HandlersOf(listenersRef', n) =
                            HandlersOf(listenersRef, n) \o <<f>>
       ]_vars
    /\ [](\A h \in HandleIds : handles[h].extra = {})

\* a frame of "connected" was delivered to two handlers, the one subscribed
\* second first removed and subscribed again: h2 then h1
DispatchOncePerHandlerWitness ==
    /\ last = "dispatch"
    /\ emitted.name = "connected"
    /\ emitted.invoked = <<"h2", "h1">>
    /\ emitted.threw = {}
    /\ state.lastEventName = "connected"

\* C28 as stated: a connection never has two heartbeat intervals running,
\* every tick writes one keep-alive frame to the connection, and after a
\* heartbeat write that failed the connection is closed and has no interval.
HeartbeatTicksAndCancels ==
    /\ [](\A id \in ClientIds : clients[id].timers <= 1)
    /\ [][\A c \in StartedNow : c.kind = "ping" => c.wrote = {c.id}]_vars
    /\ []((done.kind = "ping" /\ done.failed # {}) =>
            /\ clients[done.id].closed
            /\ ~clients[done.id].heartbeat
            /\ clients[done.id].timers = 0)

\* C28, what holds of it: a connection never has two heartbeat intervals
\* running, and the one it has is the one this.heartbeat holds; a tick writes
\* one keep-alive frame unless the connection is closed, and then nothing; a
\* heartbeat write that failed leaves the connection closed.
HeartbeatSingleTimer ==
    /\ [](\A id \in ClientIds :
            /\ clients[id].timers <= 1
            /\ clients[id].timers = 1 <=> clients[id].heartbeat)
    /\ [][\A c \in StartedNow :
            c.kind = "ping" =>
                c.wrote = (IF clients[c.id].closed THEN {} ELSE {c.id})]_vars
    /\ []((done.kind = "ping" /\ done.failed # {}) => clients[done.id].closed)

\* C29: a send or a tick calls writer.write only on a connection that is
\* not closed at that moment, and a call never gets a write added later; and
\* an operation on one connection changes no other connection: a send, tick
\* or close leaves every other connection as it is, a write that fails
\* closes only the connection written to, and no step changes two.
NoWriteAfterClosed ==
    [][/\ \A c \in StartedNow : \A id \in c.wrote : ~clients[id].closed
       /\ \A k \in CallIds :
             (calls[k].status = "pending" /\ calls'[k].status = "pending") =>
                 calls'[k].wrote = calls[k].wrote
       /\ \A c \in StartedNow :
             c.kind \in {"send", "ping", "close"} =>
                 \A o \in ClientIds \ {c.id} : clients'[o] = clients[o]
       /\ \A k \in CallIds :
             \A o \in ClientIds :
                 (calls[k].status = "pending" /\ calls'[k] # calls[k]
                    /\ o \notin calls[k].pending) => clients'[o] = clients[o]
       /\ Cardinality({o \in ClientIds : clients'[o] # clients[o]}) <= 1
    ]_vars

\* a tick's write was in flight when close() ran; the send that came after
\* wrote nothing, and the other connection still has its heartbeat
NoWriteAfterClosedWitness ==
    \E k \in CallIds, o \in ClientIds :
        /\ calls[k].kind = "ping" /\ calls[k].status = "pending"
        /\ done.kind = "send" /\ done.id = calls[k].id
        /\ done.wrote = {}
        /\ clients[done.id].closed
        /\ o # done.id
        /\ clients[o].made /\ ~clients[o].closed /\ clients[o].heartbeat

\* C30 as stated: a connection that is closed has no heartbeat interval.
ClosedHasNoHeartbeat ==
    \A id \in ClientIds :
        clients[id].closed => (~clients[id].heartbeat /\ clients[id].timers = 0)

\* the step is the call of a closure that had been called before
RanClosureCalled ==
    /\ last' = "unsubscribe"
    /\ \E c \in closures : c[3] /\ closures' \in {closures, closures \ {c}}

\* what the code does give: a closure called again changes nothing as long
\* as its handler has not been subscribed again under its name
RanClosureHarmlessWhileGone ==
    [][\A n \in Names, f \in Handlers, keep \in BOOLEAN :
          (/\ Unsubscribe(n, f, TRUE, keep)
           /\ \A i \in DOMAIN HandlersOf(listenersRef, n) :
                 HandlersOf(listenersRef, n)[i] # f) =>
              UNCHANGED <<listenersRef, handles, dispatchersRef>>
    ]_vars

\* C31 as stated: an unsubscribe closure that has already run, called again,
\* leaves the Listener Registry and the attached dispatchers unchanged, also
\* when its handler has been subscribed again under the same name meanwhile.
ClosureRunsOnce ==
    [][RanClosureCalled => UNCHANGED <<listenersRef, handles, dispatchersRef>>]_vars

\* C32: attempt changes only when onopen runs (to 0) and when a retry is
\* scheduled (by +1); connect() and disconnect() leave it as it is; and a
\* terminal error met with attempt = maxRetries -- also on a handle that a
\* manual connect() made after the retries ran out -- schedules nothing.
RetryCounterChanges ==
    [][/\ retryRef' # retryRef =>
             \/ last' = "open" /\ retryRef' = 0
             \/ last' = "error" /\ nSched' = nSched + 1 /\ retryRef' = retryRef + 1
       /\ last' = "open" => retryRef' = 0
       /\ nSched' = nSched + 1 => retryRef' = retryRef + 1
       /\ last' \in {"connect", "disconnect"} => retryRef' = retryRef
       /\ (last' = "error" /\ retryRef = opts.maxRetries) =>
             /\ retryRef' = retryRef
             /\ nSched' = nSched
             /\ timerLive' = timerLive /\ timerRef' = timerRef
    ]_vars

\* the retries ran out and the application called connect() itself: the call
\* replaced the handle that had failed terminally, attempt is still maxRetries,
\* no timer is pending, and the new handle has not opened and can fail
RetryCounterChangesWitness ==
    /\ opts.reconnectEnabled /\ opts.maxRetries > 0
    /\ ~destroyedRef
    /\ last = "connect"
    /\ replaced = CLOSED
    /\ eventSourceRef # 0
    /\ handles[eventSourceRef].readyState = CONNECTING
    /\ ~handles[eventSourceRef].opened
    /\ retryRef = opts.maxRetries
    /\ nSched = opts.maxRetries
    /\ ~timerLive /\ timerRef = 0
    /\ ENABLED OnError(eventSourceRef, CLOSED, {})

\* C33 as stated: a retry timer is set only when none is pending, so at most
\* one is pending; while one is pending the manager is not destroyed and its
\* current handle is CLOSED; after every connect() and disconnect() no timer
\* is pending.
OneRetryTimer ==
    /\ [](timerLive =>
            /\ ~destroyedRef
            /\ eventSourceRef # 0
            /\ handles[eventSourceRef].readyState = CLOSED)
    /\ [][nSched' = nSched + 1 => ~timerLive]_vars
    /\ [][last' \in {"connect", "disconnect"} => ~timerLive']_vars

\* C34: the names with an attached dispatcher, in dispatchersRef and on any
\* handle, are among the non-reserved names that have a handler in the
\* listener registry; on the current handle they are the names dispatchersRef
\* holds, one dispatcher each; with no current handle dispatchersRef is
\* empty; and a handle that was released carries none.
NoOrphanDispatcher ==
    /\ dispatchersRef \subseteq NamedActive
    /\ \A h \in HandleIds :
          /\ handles[h].listeners \subseteq NamedActive
          /\ handles[h].extra = {}
          /\ h # eventSourceRef => handles[h].listeners = {}
    /\ eventSourceRef # 0 => handles[eventSourceRef].listeners = dispatchersRef
    /\ eventSourceRef = 0 => dispatchersRef = {}

\* disconnect() found dispatchers attached: the registry still has a
\* non-reserved name, no handle exists and no dispatcher is left anywhere
NoOrphanDispatcherWitness ==
    /\ last = "disconnect"
    /\ torn.on /\ torn.hadDispatcher
    /\ NamedActive # {}
    /\ eventSourceRef = 0
    /\ dispatchersRef = {}
    /\ \A h \in HandleIds : handles[h].listeners = {}

====
